---------------------------- MODULE Spec2Model ----------------------------
(***************************************************************************)
(* Model of main.py, the Spotify listener dashboard: a Streamlit script    *)
(* that is re-executed from the top on every widget event.  One execution  *)
(* of the script is modelled by the steps Start, LoadFile, Combine, Clean, *)
(* KPI, Charts, Metrics, LLM, Display, taken in the order of the source.   *)
(*                                                                         *)
(* Representation.                                                         *)
(*   - A raw record is a function from field names to values.              *)
(*   - A minute-precision time string "%Y-%m-%d %H:%M" is the number of    *)
(*     minutes since 2024-01-01 00:00 (a Monday); an ISO-8601 `ts` and a   *)
(*     pandas datetime are the number of seconds since that instant.       *)
(*   - A float is an exact fraction [num, den].                            *)
(*   - A missing name (None / NaN in an object column) is the string None. *)
(***************************************************************************)
EXTENDS Integers, Sequences, FiniteSets, TLC

VARIABLES
    uploaded_files,   \* st.file_uploader: the batches (file_data) of the uploaded files
    user_query,       \* st.text_input: the question currently in the text input
    session_state,    \* st.session_state: survives reruns
    pc,               \* position of the running script
    fault,            \* the exception that ended the run, or NoFault
    file_formats,     \* detect_file_format's result for each file processed so far
    combined_data,    \* list of converted frames
    errors,           \* st.error messages shown in this run
    df,               \* the data frame: a sequence of rows
    df_bound,         \* whether the name df is bound in this run
    kpi,              \* the KPI locals assigned so far in this run
    metrics,          \* st.metric values shown in this run
    top_artists,      \* top-5 artists chart data
    context,          \* the context document built in this run (slots)
    response,         \* what qa_model did when called in this run
    displayed         \* the LLM response shown in this run, or NotShown

vars == <<uploaded_files, user_query, session_state, pc, fault, file_formats,
          combined_data, errors, df, df_bound, kpi, metrics, top_artists,
          context, response, displayed>>

-----------------------------------------------------------------------------
(* Bounds of the checked instances *)

MaxFiles == 2
MaxRecs == 2
MaxEvents == 3

-----------------------------------------------------------------------------
(* Values *)

None == "None"
NaN == 0 - 1
NoFault == "none"

LegacyFields == {"endTime", "artistName", "trackName", "msPlayed"}
ExtendedFields == {"ts", "master_metadata_album_artist_name",
                   "master_metadata_track_name", "ms_played"}

\* the names in their sort order (pandas groupby sorts the group keys)
ArtistOrder == <<"A", "B">>
TrackOrder == <<"T1", "T2">>
DayOrder == <<"Friday", "Monday", "Saturday", "Sunday", "Thursday", "Tuesday", "Wednesday">>
DayNames == <<"Monday", "Tuesday", "Wednesday", "Thursday", "Friday", "Saturday", "Sunday">>

\* what the records of the checked uploads play: [artist, track, ms]
LegacyPlays == {<<"A", "T1", 60000>>, <<"A", "T1", 144000>>,
                <<"B", "T2", 60000>>, <<"B", "T2", 0>>}
ExtendedPlays == {<<"A", "T1", 60000>>, <<"A", "T1", 0>>,
                  <<"B", "T2", 144000>>, <<None, None, 60000>>}
LegacyTimes == {0, 30, 61}
ExtTimes == {30, 1800, 3675}

LegacyRecs ==
    {[endTime |-> t, artistName |-> p[1], trackName |-> p[2], msPlayed |-> p[3]] :
        t \in LegacyTimes, p \in LegacyPlays}

ExtendedRecs ==
    {[ts |-> t, master_metadata_album_artist_name |-> p[1],
      master_metadata_track_name |-> p[2], ms_played |-> p[3]] :
        t \in ExtTimes, p \in ExtendedPlays}

\* a file that is neither kind of streaming history
UnknownRecs == {[endTime |-> 0, artistName |-> "A", msPlayed |-> 60000]}

DefaultValue(f) ==
    CASE f \in {"endTime"} -> 30
      [] f \in {"ts"} -> 1800
      [] f \in {"msPlayed", "ms_played"} -> 60000
      [] f \in {"artistName", "master_metadata_album_artist_name"} -> "A"
      [] OTHER -> "T1"

\* a record with exactly the fields K
ShapeRec(K) == [f \in K |-> DefaultValue(f)]

BatchesOf(R, n) == UNION {[1..k -> R] : k \in 1..n}

-----------------------------------------------------------------------------
(* Format Normalizer *)

detect_file_format_first_old(data) ==
    IF "endTime" \in DOMAIN data[1] /\ "trackName" \in DOMAIN data[1]
    THEN "old"
    ELSE IF "ts" \in DOMAIN data[1] /\ "master_metadata_track_name" \in DOMAIN data[1]
    THEN "new"
    ELSE "unknown"

detect_file_format(data) ==
    IF "ts" \in DOMAIN data[1] /\ "master_metadata_track_name" \in DOMAIN data[1]
    THEN "new"
    ELSE IF "endTime" \in DOMAIN data[1] /\ "trackName" \in DOMAIN data[1]
    THEN "old"
    ELSE "unknown"

\* record.get(key, default)
Get(record, key, default) == IF key \in DOMAIN record THEN record[key] ELSE default

\* pd.to_datetime(ts).strftime("%Y-%m-%d %H:%M"): the seconds are cut off
StrftimeMinute(ts) == ts \div 60

ConvertRecord(record) ==
    [endTime |-> StrftimeMinute(record["ts"]),
     artistName |-> Get(record, "master_metadata_album_artist_name", None),
     trackName |-> Get(record, "master_metadata_track_name", None),
     msPlayed |-> Get(record, "ms_played", 0)]

convert_new_format_to_old_format(new_data) ==
    [k \in 1..Len(new_data) |-> ConvertRecord(new_data[k])]


-----------------------------------------------------------------------------
(* Frames *)

RECURSIVE Flatten(_)
Flatten(frames) ==
    IF frames = <<>> THEN <<>> ELSE Head(frames) \o Flatten(Tail(frames))

Columns(rows) == UNION {DOMAIN rows[k] : k \in 1..Len(rows)}

NaNOf(c) == IF c \in {"msPlayed", "ms_played", "endTime", "ts"} THEN NaN ELSE None

ConcatReversed(frames) ==
    LET rev == [k \in 1..Len(frames) |-> frames[Len(frames) + 1 - k]]
        rows == Flatten(rev)
        cols == Columns(rows)
    IN  [columns |-> cols,
         rows |-> [k \in 1..Len(rows) |->
            [c \in cols |-> IF c \in DOMAIN rows[k] THEN rows[k][c] ELSE NaNOf(c)]]]

\* A frame is [columns, rows].
\* pd.concat(frames, ignore_index=True): rows in list order, columns united,
\* a column a frame lacks filled with NaN
Concat(frames) ==
    LET rows == Flatten(frames)
        cols == Columns(rows)
    IN  [columns |-> cols,
         rows |-> [k \in 1..Len(rows) |->
            [c \in cols |-> IF c \in DOMAIN rows[k] THEN rows[k][c] ELSE NaNOf(c)]]]

\* pd.to_datetime of a minute-precision string
ToDatetime(endTime) == IF endTime = NaN THEN NaN ELSE endTime * 60

Hour(t) == (t \div 3600) % 24
Date(t) == t \div 86400
DayName(t) == DayNames[(Date(t) % 7) + 1]
Month(t) ==
    LET d == Date(t)
    IN  CASE d < 31 -> 1 [] d < 60 -> 2 [] d < 91 -> 3 [] d < 121 -> 4
          [] d < 152 -> 5 [] d < 182 -> 6 [] d < 213 -> 7 [] d < 244 -> 8
          [] d < 274 -> 9 [] d < 305 -> 10 [] d < 335 -> 11 [] OTHER -> 12

Frac(n, d) == [num |-> n, den |-> d]

KeepAll(row) == TRUE

\* the mask df['msPlayed'] > 0 (NaN > 0 is False)
Played(row) == row["msPlayed"] > 0

\* lines 100-105 on a frame that has the columns endTime and msPlayed
CleanFrame(frame) ==
    LET timed == [k \in 1..Len(frame.rows) |->
                    [frame.rows[k] EXCEPT !["endTime"] = ToDatetime(frame.rows[k]["endTime"])]]
        kept == SelectSeq(timed, Played)
    IN  [columns |-> frame.columns \cup {"hour", "day_of_week", "duration_minutes", "month"},
         rows |-> [k \in 1..Len(kept) |->
            [hour |-> Hour(kept[k]["endTime"]),
             day_of_week |-> DayName(kept[k]["endTime"]),
             duration_minutes |-> Frac(kept[k]["msPlayed"], 60000),
             month |-> Month(kept[k]["endTime"])] @@ kept[k]]]

-----------------------------------------------------------------------------
(* The script, lines 66-105 *)

NotShown == "<nothing shown>"
NotCalled == [kind |-> "not called", answer |-> "", score |-> Frac(0, 1), error |-> ""]
UnknownFormatMsg == "Unknown file format. Please upload valid Spotify data files."
NoValidDataMsg == "No valid data to process. File conversion failed. Check the file formats"
UploadPrompt == "Please upload your Spotify Streaming History JSON files to begin."
NoSession == [k \in {} |-> ""]
NoFrame == [columns |-> {}, rows |-> <<>>]

\* the state of a script run that has not executed anything yet
FreshRun ==
    /\ pc = "start"
    /\ fault = NoFault
    /\ file_formats = <<>>
    /\ combined_data = <<>>
    /\ errors = <<>>
    /\ df = NoFrame
    /\ df_bound = FALSE
    /\ kpi = [k \in {} |-> 0]
    /\ metrics = <<>>
    /\ top_artists = <<>>
    /\ context = <<>>
    /\ response = NotCalled
    /\ displayed = NotShown

\* lines 66-73 and 293-294
Start ==
    /\ pc = "start"
    /\ session_state' = IF "llm_response" \in DOMAIN session_state
                        THEN session_state
                        ELSE [k \in {"llm_response"} |-> ""]
    /\ IF uploaded_files # <<>>
       THEN pc' = "load" /\ metrics' = metrics
       ELSE pc' = "done" /\ metrics' = <<UploadPrompt>>
    /\ UNCHANGED <<uploaded_files, user_query, fault, file_formats, combined_data,
                   errors, df, df_bound, kpi, top_artists, context, response, displayed>>

\* lines 75-89: one iteration of the upload loop
LoadFile ==
    /\ pc = "load"
    /\ Len(file_formats) < Len(uploaded_files)
    /\ LET file_data == uploaded_files[Len(file_formats) + 1]
           file_format == detect_file_format(file_data)
       IN  /\ file_formats' = Append(file_formats, file_format)
           /\ IF file_format = "old"
              THEN combined_data' = Append(combined_data, file_data) /\ errors' = errors
              ELSE IF file_format = "new"
              THEN /\ combined_data' = Append(combined_data,
                                              convert_new_format_to_old_format(file_data))
                   /\ errors' = errors
              ELSE combined_data' = combined_data /\ errors' = Append(errors, UnknownFormatMsg)
    /\ UNCHANGED <<uploaded_files, user_query, session_state, pc, fault, df, df_bound,
                   kpi, metrics, top_artists, context, response, displayed>>

\* lines 91-97
Combine ==
    /\ pc = "load"
    /\ Len(file_formats) = Len(uploaded_files)
    /\ IF combined_data # <<>>
       THEN df' = Concat(combined_data) /\ df_bound' = TRUE /\ errors' = errors
       ELSE df' = df /\ df_bound' = FALSE /\ errors' = Append(errors, NoValidDataMsg)
    /\ pc' = "clean"
    /\ UNCHANGED <<uploaded_files, user_query, session_state, fault, file_formats,
                   combined_data, kpi, metrics, top_artists, context, response, displayed>>

\* lines 99-105
Clean ==
    /\ pc = "clean"
    /\ IF ~df_bound
       THEN fault' = "NameError" /\ pc' = "done" /\ df' = df
       ELSE IF ~({"endTime", "msPlayed"} \subseteq df.columns)
       THEN fault' = "KeyError" /\ pc' = "done" /\ df' = df
       ELSE fault' = fault /\ pc' = "kpi" /\ df' = CleanFrame(df)
    /\ UNCHANGED <<uploaded_files, user_query, session_state, file_formats, combined_data,
                   errors, df_bound, kpi, metrics, top_artists, context, response, displayed>>

-----------------------------------------------------------------------------
(* pandas helpers.  A series is a sequence of [key, total]: the index label *)
(* and the summed msPlayed, which stands for total/60000 minutes.          *)

Range(seq) == {seq[k] : k \in 1..Len(seq)}

RECURSIVE SumNum(_)
SumNum(rows) ==
    IF rows = <<>> THEN 0 ELSE Head(rows)["msPlayed"] + SumNum(Tail(rows))

RECURSIVE SortedInts(_)
SortedInts(S) ==
    IF S = {} THEN <<>>
    ELSE LET m == CHOOSE x \in S : \A y \in S : x <= y
         IN  <<m>> \o SortedInts(S \ {m})

\* the values of a column, empty when the frame has no such column
Col(rows, c) == IF c \in Columns(rows) THEN [k \in 1..Len(rows) |-> rows[k][c]] ELSE <<>>

GroupTotal(rows, c, key) ==
    LET Has(row) == row[c] = key
    IN  SumNum(SelectSeq(rows, Has))

\* df.groupby(c)['duration_minutes'].sum() for an integer column: keys ascending
GroupByInt(rows, c) ==
    LET keys == SortedInts(Range(Col(rows, c)))
    IN  [k \in 1..Len(keys) |-> [key |-> keys[k], total |-> GroupTotal(rows, c, keys[k])]]

\* the same for a column of names: keys in sort order, NaN keys dropped
GroupByName(rows, c, order) ==
    LET present == Range(Col(rows, c)) \ {None}
        Present(name) == name \in present
        keys == SelectSeq(order, Present)
    IN  [k \in 1..Len(keys) |-> [key |-> keys[k], total |-> GroupTotal(rows, c, keys[k])]]

\* df.groupby(['month', c]).sum(): keys (month, name) in lexicographic order
GroupByMonthName(rows, c, order) ==
    LET months == SortedInts(Range(Col(rows, "month")))
        InMonth(m) == LET Is(row) == row["month"] = m IN SelectSeq(rows, Is)
        Part(m) == LET g == GroupByName(InMonth(m), c, order)
                   IN  [k \in 1..Len(g) |-> [key |-> <<m, g[k].key>>, total |-> g[k].total]]
    IN  Flatten([k \in 1..Len(months) |-> Part(months[k])])

Totals(series) == {series[k].total : k \in 1..Len(series)}
MaxOf(S) == CHOOSE x \in S : \A y \in S : y <= x
MinOf(S) == CHOOSE x \in S : \A y \in S : x <= y

FirstWith(series, v) ==
    series[CHOOSE k \in 1..Len(series) :
               series[k].total = v /\ \A j \in 1..(k - 1) : series[j].total # v].key

\* Series.idxmax(): the label of the first occurrence of the maximum
\* (of an empty series: ValueError, see Raises)
IdxMax(series) ==
    IF series = <<>> THEN None ELSE FirstWith(series, MaxOf(Totals(series)))

IdxMin(series) ==
    IF series = <<>> THEN None ELSE FirstWith(series, MinOf(Totals(series)))

\* the exception idxmax()/idxmin() raises on this series, or NoFault
Raises(series) == IF series = <<>> THEN "ValueError" ELSE NoFault

\* the exception df[c] raises, or NoFault
Missing(frame, c) == IF c \in frame.columns THEN NoFault ELSE "KeyError"

FracNaN == Frac(0, 0)

\* Series.max() / min() / mean() of the totals, in minutes
SeriesMax(series) == IF series = <<>> THEN FracNaN ELSE Frac(MaxOf(Totals(series)), 60000)
SeriesMin(series) == IF series = <<>> THEN FracNaN ELSE Frac(MinOf(Totals(series)), 60000)
RECURSIVE SumTotals(_)
SumTotals(series) ==
    IF series = <<>> THEN 0 ELSE Head(series).total + SumTotals(Tail(series))
SeriesMean(series) ==
    IF series = <<>> THEN FracNaN ELSE Frac(SumTotals(series), 60000 * Len(series))

\* Series.nunique(): NaN is not counted
NUnique(rows, c) == Cardinality(Range(Col(rows, c)) \ {None})

\* Series.duplicated().sum(): occurrences after the first, NaN counted like a value
Duplicated(rows, c) == Len(Col(rows, c)) - Cardinality(Range(Col(rows, c)))

Perms(n) == {p \in [1..n -> 1..n] : \A a, b \in 1..n : a # b => p[a] # p[b]}

\* Series.nlargest(n), i.e. SelectNSeries.compute.  With n >= len(series) it is
\* sort_values(ascending=False).head(n), whose default sort kind is not stable:
\* entries of equal total come in an order the build decides.  Otherwise the n
\* largest are picked with a stable sort, first occurrences first.
NLargest(series, n) ==
    IF n >= Len(series)
    THEN {[k \in 1..Len(series) |-> series[p[k]]] : p \in
            {q \in Perms(Len(series)) :
                \A a, b \in 1..Len(series) : a < b => series[q[a]].total >= series[q[b]].total}}
    ELSE LET Before(a, b) == \/ series[a].total > series[b].total
                             \/ series[a].total = series[b].total /\ a < b
             rank == [a \in 1..Len(series) |->
                        Cardinality({b \in 1..Len(series) : Before(b, a)}) + 1]
         IN  {[k \in 1..n |-> series[CHOOSE a \in 1..Len(series) : rank[a] = k]]}

GCD(a, b) ==
    IF a = 0 /\ b = 0 THEN 1
    ELSE MaxOf({d \in 1..(IF a > b THEN a ELSE b) : a % d = 0 /\ b % d = 0})
Abs(x) == IF x < 0 THEN 0 - x ELSE x
Reduce(f) ==
    LET g == GCD(Abs(f.num), Abs(f.den))
    IN  IF f.den = 0 THEN FracNaN ELSE Frac(f.num \div g, f.den \div g)
FracAdd(f, g) == Reduce(Frac(f.num * g.den + g.num * f.den, f.den * g.den))

\* Series.pct_change().mean() * 100 of the monthly totals: the first change is
\* NaN and mean() skips it; with a single month the mean is NaN
RECURSIVE SumChanges(_, _)
SumChanges(series, k) ==
    IF k > Len(series) THEN Frac(0, 1)
    ELSE FracAdd(Reduce(Frac(series[k].total - series[k - 1].total, series[k - 1].total)),
                 SumChanges(series, k + 1))
PctChangeMean100(series) ==
    IF Len(series) < 2 THEN FracNaN
    ELSE LET sum == SumChanges(series, 2)
         IN  Reduce(Frac(100 * sum.num, sum.den * (Len(series) - 1)))

\* f"{x:.2f}": the number of hundredths, rounding a tie to the even digit
Format2f(f) ==
    IF f.den = 0 THEN [text |-> "nan", hundredths |-> 0]
    ELSE LET q == (100 * f.num) \div f.den
             r == 100 * f.num - q * f.den
         IN  [text |-> ".2f",
              hundredths |-> IF 2 * r > f.den \/ (2 * r = f.den /\ q % 2 = 1)
                             THEN q + 1 ELSE q]

\* f"{x}"
FormatStr(x) == [text |-> "str", value |-> x]

-----------------------------------------------------------------------------
(* KPI computation.  A block of assignments is a sequence of statements    *)
(* [name, exc, value]: executing it binds name to value, or stops with the *)
(* exception exc that evaluating the right-hand side raises.               *)

Stmt(name, exc, value) == [name |-> name, exc |-> exc, value |-> value]

RECURSIVE Exec(_, _)
Exec(stmts, env) ==
    IF stmts = <<>> THEN [env |-> env, fault |-> NoFault]
    ELSE IF Head(stmts).exc # NoFault THEN [env |-> env, fault |-> Head(stmts).exc]
    ELSE Exec(Tail(stmts), (Head(stmts).name :> Head(stmts).value) @@ env)

WithDate(rows) == [k \in 1..Len(rows) |-> ("date" :> Date(rows[k]["endTime"])) @@ rows[k]]

SessionBreakInclusive(delta) == delta >= 1800

\* (...).dt.total_seconds() > 1800
SessionBreak(delta) == delta > 1800

\* line 208: the first difference is NaT, and NaN > 1800 is False
SessionFlags(rows) ==
    [k \in 1..Len(rows) |->
        IF k = 1 THEN FALSE ELSE SessionBreak(rows[k]["endTime"] - rows[k - 1]["endTime"])]

\* line 225: the first difference is filled with 0
SessionDeltas(rows) ==
    [k \in 1..Len(rows) |->
        IF k = 1 THEN 0 ELSE rows[k]["endTime"] - rows[k - 1]["endTime"]]

\* Series.cumsum() of a boolean series
CumSum(flags) ==
    [k \in 1..Len(flags) |-> Cardinality({j \in 1..k : flags[j]})]

WithSession(rows, ids) ==
    [k \in 1..Len(rows) |-> ("session" :> ids[k]) @@ rows[k]]

\* df['msPlayed'] >= (3 * 60 * 1000) * 0.8
FullyPlayed(row) == row["msPlayed"] >= 144000
PartiallyPlayed(row) == row["msPlayed"] < 144000

Weekday(row) == row["day_of_week"] \in {"Monday", "Tuesday", "Wednesday", "Thursday", "Friday"}
Weekend(row) == row["day_of_week"] \in {"Saturday", "Sunday"}

\* lines 108-116
KpiBlock(frame) ==
    LET rows == frame.rows
        byHour == GroupByInt(rows, "hour")
        byDate == GroupByInt(WithDate(rows), "date")
        byMonth == GroupByInt(rows, "month")
        byArtist == GroupByName(rows, "artistName", ArtistOrder)
        bySong == GroupByName(rows, "trackName", TrackOrder)
    IN  << Stmt("total_hours", NoFault, Frac(SumNum(rows), 3600000)),
           Stmt("unique_artists", Missing(frame, "artistName"), NUnique(rows, "artistName")),
           Stmt("unique_songs", Missing(frame, "trackName"), NUnique(rows, "trackName")),
           Stmt("most_active_hour", Raises(byHour), IdxMax(byHour)),
           Stmt("avg_listens_per_day", NoFault, SeriesMean(byDate)),
           Stmt("avg_listens_per_month", NoFault, SeriesMean(byMonth)),
           Stmt("avg_listens_per_hour", NoFault, SeriesMean(byHour)),
           Stmt("top_artist", Raises(byArtist), IdxMax(byArtist)),
           Stmt("top_song", Raises(bySong), IdxMax(bySong)) >>

\* lines 122-129
MetricsShown(k) ==
    << [label |-> "Total Hours Listened", value |-> Format2f(k["total_hours"])],
       [label |-> "Unique Artists", value |-> FormatStr(k["unique_artists"])],
       [label |-> "Unique Songs", value |-> FormatStr(k["unique_songs"])],
       [label |-> "Most Active Hour", value |-> FormatStr(k["most_active_hour"])],
       [label |-> "Avg Listens per Day", value |-> Format2f(k["avg_listens_per_day"])],
       [label |-> "Avg Listens per Month", value |-> Format2f(k["avg_listens_per_month"])] >>

\* lines 107-129
KPI ==
    /\ pc = "kpi"
    /\ LET done == Exec(KpiBlock(df), kpi)
       IN  /\ kpi' = done.env
           /\ fault' = done.fault
           /\ IF done.fault = NoFault
              THEN pc' = "charts" /\ metrics' = MetricsShown(done.env)
              ELSE pc' = "done" /\ metrics' = metrics
    /\ UNCHANGED <<uploaded_files, user_query, session_state, file_formats, combined_data,
                   errors, df, df_bound, top_artists, context, response, displayed>>

\* lines 131-180: the chart data that later lines or the context read
\* (top_songs, hourly_playtime, the heatmap and monthly_playtime are only drawn)
Charts ==
    /\ pc = "charts"
    /\ top_artists' \in NLargest(GroupByName(df.rows, "artistName", ArtistOrder), 5)
    /\ kpi' = Exec(<< Stmt("fully_played", NoFault, Len(SelectSeq(df.rows, FullyPlayed))),
                      Stmt("partially_played", NoFault,
                           Len(SelectSeq(df.rows, PartiallyPlayed))) >>, kpi).env
    /\ pc' = "metrics"
    /\ UNCHANGED <<uploaded_files, user_query, session_state, fault, file_formats,
                   combined_data, errors, df, df_bound, metrics, context, response, displayed>>

\* lines 183-238
MetricsBlock(frame) ==
    LET rows == frame.rows
        byHour == GroupByInt(rows, "hour")
        byDay == GroupByName(rows, "day_of_week", DayOrder)
        byDate == GroupByInt(WithDate(rows), "date")
        byMonth == GroupByInt(rows, "month")
        byArtist == GroupByName(rows, "artistName", ArtistOrder)
        bySong == GroupByName(rows, "trackName", TrackOrder)
        byMonthArtist == GroupByMonthName(rows, "artistName", ArtistOrder)
        byMonthSong == GroupByMonthName(rows, "trackName", TrackOrder)
        dates == Range(Col(WithDate(rows), "date"))
        fully == Len(SelectSeq(rows, FullyPlayed))
        sessions208 == GroupByInt(WithSession(rows, CumSum(SessionFlags(rows))), "session")
        deltas == SessionDeltas(rows)
        ids226 == CumSum([k \in 1..Len(rows) |-> SessionBreak(deltas[k])])
        sessions227 == GroupByInt(WithSession(rows, ids226), "session")
        top5 == CHOOSE r \in NLargest(byArtist, 5) : TRUE
    IN  << Stmt("total_hours", NoFault, Frac(SumNum(rows), 3600000)),
           Stmt("unique_artists", Missing(frame, "artistName"), NUnique(rows, "artistName")),
           Stmt("unique_songs", Missing(frame, "trackName"), NUnique(rows, "trackName")),
           Stmt("most_active_hour", Raises(byHour), IdxMax(byHour)),
           Stmt("most_active_day", Raises(byDay), IdxMax(byDay)),
           Stmt("date_range_start", NoFault, IF dates = {} THEN NaN ELSE MinOf(dates)),
           Stmt("date_range_end", NoFault, IF dates = {} THEN NaN ELSE MaxOf(dates)),
           Stmt("avg_listens_per_day", NoFault, SeriesMean(byDate)),
           Stmt("avg_listens_per_month", NoFault, SeriesMean(byMonth)),
           Stmt("avg_listens_per_hour", NoFault, SeriesMean(byHour)),
           Stmt("highest_month", Raises(byMonth), IdxMax(byMonth)),
           Stmt("lowest_month", Raises(byMonth), IdxMin(byMonth)),
           Stmt("weekday_playtime", NoFault, Frac(SumNum(SelectSeq(rows, Weekday)), 60000)),
           Stmt("weekend_playtime", NoFault, Frac(SumNum(SelectSeq(rows, Weekend)), 60000)),
           Stmt("fully_played", NoFault, fully),
           Stmt("partially_played", NoFault, Len(SelectSeq(rows, PartiallyPlayed))),
           Stmt("fully_played_percentage",
                IF rows = <<>> THEN "ZeroDivisionError" ELSE NoFault,
                Frac(fully * 100, Len(rows))),
           Stmt("session_lengths", NoFault, sessions208),
           Stmt("longest_session", NoFault, SeriesMax(sessions208)),
           Stmt("shortest_session", NoFault, SeriesMin(sessions208)),
           Stmt("top_artist", Raises(byArtist), IdxMax(byArtist)),
           Stmt("top_song", Raises(bySong), IdxMax(bySong)),
           Stmt("weekday_playtime", NoFault, Frac(SumNum(SelectSeq(rows, Weekday)), 60000)),
           Stmt("weekend_playtime", NoFault, Frac(SumNum(SelectSeq(rows, Weekend)), 60000)),
           Stmt("monthly_top_artist", Raises(byMonthArtist),
                IF byMonthArtist = <<>> THEN None ELSE IdxMax(byMonthArtist)[2]),
           Stmt("monthly_top_song", Raises(byMonthSong),
                IF byMonthSong = <<>> THEN None ELSE IdxMax(byMonthSong)[2]),
           Stmt("top_5_artist_playtime", NoFault, Frac(SumTotals(top5), 60000)),
           Stmt("session_deltas", NoFault, deltas),
           Stmt("session_lengths", NoFault, sessions227),
           Stmt("avg_session_duration", NoFault, SeriesMean(sessions227)),
           Stmt("song_repeatability_count", NoFault, Duplicated(rows, "trackName")),
           Stmt("monthly_trend_variance", NoFault, PctChangeMean100(byMonth)),
           Stmt("consistency_rate", NoFault, Frac(100 * Len(byDay), 7)),
           Stmt("monthly_activity", NoFault, byMonth),
           Stmt("most_active_month", Raises(byMonth), IdxMax(byMonth)),
           Stmt("most_active_month_total", NoFault, SeriesMax(byMonth)) >>

\* lines 182-238; line 226 leaves the session ids in df['session']
Metrics ==
    /\ pc = "metrics"
    /\ LET done == Exec(MetricsBlock(df), kpi)
           deltas == SessionDeltas(df.rows)
           ids == CumSum([k \in 1..Len(df.rows) |-> SessionBreak(deltas[k])])
       IN  /\ kpi' = done.env
           /\ fault' = done.fault
           /\ df' = IF done.fault # NoFault THEN df
                     ELSE [columns |-> df.columns \cup {"session"},
                           rows |-> WithSession(df.rows, ids)]
           /\ pc' = IF done.fault = NoFault THEN "llm" ELSE "done"
    /\ UNCHANGED <<uploaded_files, user_query, session_state, file_formats, combined_data,
                   errors, df_bound, metrics, top_artists, context, response, displayed>>

-----------------------------------------------------------------------------
(* LLM section, lines 243-284 *)

Slot2f(k, name) == [kpi |-> name, text |-> Format2f(k[name])]
SlotStr(k, name) == [kpi |-> name, text |-> FormatStr(k[name])]
Complement(f) == Frac(100 * f.den - f.num, f.den)

BuildContextOnce(k) ==
    << SlotStr(k, "date_range_start"), SlotStr(k, "date_range_end"),
       Slot2f(k, "total_hours"),
       SlotStr(k, "unique_songs"), SlotStr(k, "unique_artists"),
       SlotStr(k, "most_active_hour"),
       SlotStr(k, "most_active_day"),
       Slot2f(k, "avg_listens_per_day"), Slot2f(k, "avg_listens_per_month"),
       SlotStr(k, "highest_month"), SlotStr(k, "lowest_month"),
       Slot2f(k, "fully_played_percentage"),
       Slot2f(k, "longest_session"), Slot2f(k, "shortest_session"),
       SlotStr(k, "top_artist"), SlotStr(k, "top_song"),
       Slot2f(k, "weekday_playtime"), Slot2f(k, "weekend_playtime"),
       SlotStr(k, "monthly_top_artist"),
       SlotStr(k, "monthly_top_song"),
       Slot2f(k, "top_5_artist_playtime"),
       Slot2f(k, "avg_session_duration"),
       SlotStr(k, "song_repeatability_count"),
       Slot2f(k, "consistency_rate"),
       Slot2f(k, "monthly_trend_variance") >>

\* lines 249-270: the slots of the f-string in order, each with the local it
\* reads and the text it renders
BuildContext(k) ==
    << SlotStr(k, "date_range_start"), SlotStr(k, "date_range_end"),
       Slot2f(k, "total_hours"),
       SlotStr(k, "unique_songs"), SlotStr(k, "unique_artists"),
       SlotStr(k, "most_active_hour"),
       SlotStr(k, "most_active_day"),
       Slot2f(k, "avg_listens_per_day"), Slot2f(k, "avg_listens_per_month"),
       SlotStr(k, "highest_month"), SlotStr(k, "lowest_month"),
       Slot2f(k, "fully_played_percentage"),
       Slot2f(k, "longest_session"), Slot2f(k, "shortest_session"),
       SlotStr(k, "top_artist"), SlotStr(k, "top_song"),
       Slot2f(k, "weekday_playtime"), Slot2f(k, "weekend_playtime"),
       SlotStr(k, "monthly_top_artist"),
       SlotStr(k, "monthly_top_song"),
       SlotStr(k, "top_artist"),
       Slot2f(k, "top_5_artist_playtime"),
       Slot2f(k, "fully_played_percentage"),
       [kpi |-> "fully_played_percentage",
        text |-> Format2f(Complement(k["fully_played_percentage"]))],
       Slot2f(k, "avg_session_duration"),
       SlotStr(k, "song_repeatability_count"),
       Slot2f(k, "consistency_rate"),
       Slot2f(k, "monthly_trend_variance") >>

Queries == {"", "q1", "q2"}
Answers == {"a1", "a2"}
Scores == {Frac(29, 100), Frac(3, 10), Frac(31, 100)}
Exceptions == {"RuntimeError"}
NoAnswerMsg == "Sorry, I couldn't find an answer to your question."
ErrorPrefix == "Error processing your request: "

\* what a call of qa_model can do: return {answer, score} or raise
QAOutcomes ==
    {[kind |-> "returned", answer |-> a, score |-> sc, error |-> ""] :
        a \in Answers, sc \in Scores}
    \cup {[kind |-> "raised", answer |-> "", score |-> Frac(0, 1), error |-> e] :
        e \in Exceptions}

FracGT(f, g) == f.num * g.den > g.num * f.den

QAPolicyInclusive(outcome) ==
    IF outcome.kind = "raised" THEN ErrorPrefix \o outcome.error
    ELSE IF ~FracGT(Frac(3, 10), outcome.score) THEN outcome.answer
    ELSE NoAnswerMsg

\* lines 273-280: the value stored in st.session_state.llm_response
QAPolicy(outcome) ==
    IF outcome.kind = "raised" THEN ErrorPrefix \o outcome.error
    ELSE IF FracGT(outcome.score, Frac(3, 10)) THEN outcome.answer
    ELSE NoAnswerMsg

\* lines 243-280
LLM ==
    /\ pc = "llm"
    /\ IF user_query # ""
       THEN /\ context' = BuildContext(kpi)
            /\ \E outcome \in QAOutcomes :
                /\ response' = outcome
                /\ session_state' = [session_state EXCEPT !["llm_response"] = QAPolicy(outcome)]
       ELSE UNCHANGED <<context, response, session_state>>
    /\ pc' = "display"
    /\ UNCHANGED <<uploaded_files, user_query, fault, file_formats, combined_data, errors,
                   df, df_bound, kpi, metrics, top_artists, displayed>>

\* lines 282-284
Display ==
    /\ pc = "display"
    /\ displayed' = IF session_state["llm_response"] # ""
                    THEN session_state["llm_response"]
                    ELSE displayed
    /\ pc' = "done"
    /\ UNCHANGED <<uploaded_files, user_query, session_state, fault, file_formats,
                   combined_data, errors, df, df_bound, kpi, metrics, top_artists,
                   context, response>>

\* one step of the running script
Step == Start \/ LoadFile \/ Combine \/ Clean \/ KPI \/ Charts \/ Metrics \/ LLM \/ Display

-----------------------------------------------------------------------------
(* Widget events (lines 67 and 245): on a new widget value Streamlit stops  *)
(* the running script, wherever it is, and runs it again from the top;     *)
(* only the widget values and st.session_state are kept.                   *)

Rerun ==
    /\ pc' = "start"
    /\ fault' = NoFault
    /\ file_formats' = <<>>
    /\ combined_data' = <<>>
    /\ errors' = <<>>
    /\ df' = NoFrame
    /\ df_bound' = FALSE
    /\ kpi' = [k \in {} |-> 0]
    /\ metrics' = <<>>
    /\ top_artists' = <<>>
    /\ context' = <<>>
    /\ response' = NotCalled
    /\ displayed' = NotShown

-----------------------------------------------------------------------------
(* Inputs *)

Min(a, b) == IF a < b THEN a ELSE b

\* the non-empty batches of at most n records; a batch is of one kind
Batches(n) ==
    BatchesOf(LegacyRecs, n) \cup BatchesOf(ExtendedRecs, n) \cup BatchesOf(UnknownRecs, n)

\* the uploads of at most `files` batches holding at most `events` records
RECURSIVE Uploads(_, _)
Uploads(files, events) ==
    {<<>>} \cup
    (IF files = 0 \/ events = 0 THEN {}
     ELSE UNION {{<<b>> \o rest : rest \in Uploads(files - 1, events - Len(b))} :
                    b \in Batches(Min(MaxRecs, events))})

\* one file whose first record has exactly the fields K, for every K
ShapeUploads == {<< <<ShapeRec(K)>> >> : K \in SUBSET (LegacyFields \cup ExtendedFields)}

\* the datasets of the interactive session: at most one file of one record
UIUploads == {<<>>} \cup {<<b>> : b \in Batches(1)}

UploadFiles ==
    /\ \E files \in UIUploads : uploaded_files' = files
    /\ Rerun
    /\ UNCHANGED <<user_query, session_state>>

TypeQuery ==
    /\ \E q \in Queries : user_query' = q
    /\ Rerun
    /\ UNCHANGED <<uploaded_files, session_state>>

-----------------------------------------------------------------------------
(* Specifications *)

\* one run of the script on an upload, nothing typed
Init ==
    /\ uploaded_files \in Uploads(MaxFiles, MaxEvents) \cup ShapeUploads
    /\ user_query = ""
    /\ session_state = NoSession
    /\ FreshRun

Next == Step

Spec == Init /\ [][Next]_vars

\* the interactive session: the page is opened, then files and questions change
InitUI ==
    /\ uploaded_files = <<>>
    /\ user_query = ""
    /\ session_state = NoSession
    /\ FreshRun

NextUI == Step \/ UploadFiles \/ TypeQuery

SpecUI == InitUI /\ [][NextUI]_vars

-----------------------------------------------------------------------------
(* Properties *)

HasLegacyPair(record) == {"endTime", "trackName"} \subseteq DOMAIN record
HasExtendedPair(record) == {"ts", "master_metadata_track_name"} \subseteq DOMAIN record
Tags == {"old", "new", "unknown"}

\* C1 as stated: a first record with endTime and trackName is detected 'old', one
\* with ts and master_metadata_track_name 'new', one with neither pair 'unknown',
\* and every record gets exactly one of the three tags.
C1_DetectExhaustiveExclusive ==
    \A i \in 1..Len(file_formats) :
        LET first == uploaded_files[i][1]
        IN  /\ HasLegacyPair(first) => file_formats[i] = "old"
            /\ HasExtendedPair(first) => file_formats[i] = "new"
            /\ ~HasLegacyPair(first) /\ ~HasExtendedPair(first) => file_formats[i] = "unknown"
            /\ file_formats[i] \in Tags

\* C1 amended: the extended pair is probed first.  A first record with ts and
\* master_metadata_track_name is detected 'new' whatever else it carries; one with
\* endTime and trackName and without the full extended pair 'old'; one with
\* neither pair 'unknown'; every record gets exactly one of the three tags.
C1_DetectExtendedFirst ==
    \A i \in 1..Len(file_formats) :
        LET first == uploaded_files[i][1]
        IN  /\ HasExtendedPair(first) => file_formats[i] = "new"
            /\ HasLegacyPair(first) /\ ~HasExtendedPair(first) => file_formats[i] = "old"
            /\ ~HasLegacyPair(first) /\ ~HasExtendedPair(first) => file_formats[i] = "unknown"
            /\ file_formats[i] \in Tags

\* a file whose first record carries both pairs has been classified
C1_Witness ==
    \E i \in 1..Len(file_formats) :
        /\ HasLegacyPair(uploaded_files[i][1])
        /\ HasExtendedPair(uploaded_files[i][1])
        /\ file_formats[i] = "new"

IsKnownBatch(batch) == HasLegacyPair(batch[1]) \/ HasExtendedPair(batch[1])
IsUnknownBatch(batch) == ~IsKnownBatch(batch)
Normalized(batch) ==
    IF HasExtendedPair(batch[1]) THEN convert_new_format_to_old_format(batch) ELSE batch
KnownNormalized ==
    LET known == SelectSeq(uploaded_files, IsKnownBatch)
    IN  [i \in 1..Len(known) |-> Normalized(known[i])]
IsUnknownMsg(msg) == msg = UnknownFormatMsg

\* C2: once the upload loop has run, every file has been processed and none has
\* ended the run; each unknown batch has raised one warning and contributed no
\* frame; the combined events are the normalized events of the other batches,
\* concatenated in upload order, none reordered, dropped or deduplicated.
C2_ConcatInUploadOrder ==
    /\ pc = "load" => fault = NoFault
    /\ pc = "clean" =>
        /\ fault = NoFault
        /\ Len(file_formats) = Len(uploaded_files)
        /\ Len(SelectSeq(errors, IsUnknownMsg)) = Len(SelectSeq(uploaded_files, IsUnknownBatch))
        /\ combined_data = KnownNormalized
        /\ df_bound = (KnownNormalized # <<>>)
        /\ df.rows = Flatten(KnownNormalized)

\* an unknown batch came first and a known batch of two different events after it
C2_Witness ==
    /\ pc = "clean"
    /\ Len(uploaded_files) = 2
    /\ IsUnknownBatch(uploaded_files[1])
    /\ Len(df.rows) = 2
    /\ df.rows[1] # df.rows[2]
    /\ Len(errors) = 1

Segmented == "session" \in df.columns

SessionRows(s) == LET In(row) == row["session"] = s IN SelectSeq(df.rows, In)

\* C3: the session id of the first event is 0; each later event has the id of its
\* predecessor, plus one exactly when the gap to it is strictly more than 1800
\* seconds; the ids are the integers 0..k; session_lengths holds, per id, the sum
\* of the durations of its events; longest, shortest and mean session are the
\* maximum, minimum and mean of these sums.
C3_SessionSegmentation ==
    Segmented /\ df.rows # <<>> =>
        LET rows == df.rows
            n == Len(rows)
            last == rows[n]["session"]
            total(s) == SumNum(SessionRows(s))
        IN  /\ rows[1]["session"] = 0
            /\ \A i \in 2..n :
                rows[i]["session"] = rows[i - 1]["session"] +
                    (IF rows[i]["endTime"] - rows[i - 1]["endTime"] > 1800 THEN 1 ELSE 0)
            /\ {rows[i]["session"] : i \in 1..n} = 0..last
            /\ kpi["session_lengths"] = [j \in 1..(last + 1) |-> [key |-> j - 1, total |-> total(j - 1)]]
            /\ kpi["longest_session"] = Frac(MaxOf({total(s) : s \in 0..last}), 60000)
            /\ kpi["shortest_session"] = Frac(MinOf({total(s) : s \in 0..last}), 60000)
            /\ kpi["avg_session_duration"] = Frac(SumNum(rows), 60000 * (last + 1))

\* three events, the second exactly 1800 s after the first (same session), the
\* third more than 1800 s after the second (new session)
C3_Witness ==
    /\ Segmented
    /\ Len(df.rows) = 3
    /\ df.rows[2]["endTime"] - df.rows[1]["endTime"] = 1800
    /\ df.rows[3]["endTime"] - df.rows[2]["endTime"] > 1800
    /\ df.rows[2]["session"] = 0
    /\ df.rows[3]["session"] = 1

\* C4 as stated: the events on which the session gaps are computed are sorted
\* ascending by endTime.
C4_SegmenterInputSorted ==
    Segmented => \A i \in 2..Len(df.rows) : df.rows[i - 1]["endTime"] <= df.rows[i]["endTime"]

NormalizedInput == Flatten(KnownNormalized)
HasPlaytime(event) == event["msPlayed"] > 0
PlayedInput == SelectSeq(NormalizedInput, HasPlaytime)

\* every uploaded batch is unknown, or every event of every batch has msPlayed <= 0
ZeroEventsRemain ==
    /\ uploaded_files # <<>>
    /\ \A i \in 1..Len(NormalizedInput) :
        /\ "msPlayed" \in DOMAIN NormalizedInput[i]
        /\ NormalizedInput[i]["msPlayed"] <= 0

\* C5 as stated: when zero events remain, the run ends by reporting that there is
\* no data, not by an unhandled exception, and no KPI value and no context
\* document has been produced or shown.
C5_NoDataReported ==
    pc = "done" /\ ZeroEventsRemain =>
        /\ fault = NoFault
        /\ NoValidDataMsg \in Range(errors)
        /\ DOMAIN kpi = {}
        /\ metrics = <<>>
        /\ context = <<>>

Cleaned == "hour" \in df.columns

\* C6: after cleaning, the frame holds exactly the uploaded events with
\* msPlayed > 0, in order, and none with msPlayed <= 0; the counts computed from
\* it (fully + partially played, distinct artists, repeats, session deltas and
\* session totals) are those of the events with msPlayed > 0.
C6_ZeroDurationExcluded ==
    Cleaned =>
        /\ \A k \in 1..Len(df.rows) : df.rows[k]["msPlayed"] > 0
        /\ Len(df.rows) = Len(PlayedInput)
        /\ \A k \in 1..Len(df.rows) :
            \A c \in {"artistName", "trackName", "msPlayed"} \cap df.columns :
                df.rows[k][c] = PlayedInput[k][c]
        /\ "partially_played" \in DOMAIN kpi =>
            kpi["fully_played"] + kpi["partially_played"] = Len(PlayedInput)
        /\ "unique_artists" \in DOMAIN kpi =>
            kpi["unique_artists"] =
                Cardinality({PlayedInput[k]["artistName"] : k \in 1..Len(PlayedInput)} \ {None})
        /\ "song_repeatability_count" \in DOMAIN kpi =>
            /\ kpi["song_repeatability_count"] = Len(PlayedInput) -
                Cardinality({PlayedInput[k]["trackName"] : k \in 1..Len(PlayedInput)})
            /\ Len(kpi["session_deltas"]) = Len(PlayedInput)
            /\ SumTotals(kpi["session_lengths"]) = SumNum(PlayedInput)

\* an upload with a zero-duration event and a played one, after the playtime
\* distribution was computed
C6_Witness ==
    /\ Cleaned
    /\ "song_repeatability_count" \in DOMAIN kpi
    /\ Len(NormalizedInput) = 3
    /\ Len(PlayedInput) = 2
    /\ kpi["fully_played"] = 1
    /\ kpi["partially_played"] = 1

\* C7 as stated: the overall top artist is the first entry of the top-5-artists
\* ranking, for the computation before the charts and the one before the context.
C7_TopArtistIsFirstOfTop5 ==
    top_artists # <<>> => top_artists[1].key = kpi["top_artist"]

\* the statistics of the KPI set, by the names of the locals that hold them
KPISet ==
    {"total_hours", "unique_artists", "unique_songs",
     "most_active_hour", "most_active_day", "most_active_month",
     "avg_listens_per_day", "avg_listens_per_month", "avg_listens_per_hour",
     "top_artist", "top_song", "top_5_artist_playtime",
     "fully_played_percentage",
     "longest_session", "shortest_session", "avg_session_duration",
     "song_repeatability_count", "consistency_rate", "monthly_trend_variance",
     "weekday_playtime", "weekend_playtime"}

\* those the template renders with two decimals
TwoDecimals ==
    {"total_hours", "avg_listens_per_day", "avg_listens_per_month",
     "top_5_artist_playtime", "fully_played_percentage",
     "longest_session", "shortest_session", "avg_session_duration",
     "consistency_rate", "monthly_trend_variance",
     "weekday_playtime", "weekend_playtime"}

SlotsOf(name) == {i \in 1..Len(context) : context[i].kpi = name}
Rendered(name) ==
    IF name \in TwoDecimals THEN Format2f(kpi[name]) ELSE FormatStr(kpi[name])

C9_AdapterPolicy ==
    /\ pc = "display" /\ user_query # "" => response.kind # "not called"
    /\ response.kind = "returned" /\ 10 * response.score.num > 3 * response.score.den =>
        session_state["llm_response"] = response.answer /\ fault = NoFault
    /\ response.kind = "returned" /\ 10 * response.score.num <= 3 * response.score.den =>
        session_state["llm_response"] = NoAnswerMsg /\ fault = NoFault
    /\ response.kind = "raised" =>
        /\ session_state["llm_response"] = "Error processing your request: RuntimeError"
        /\ fault = NoFault
        /\ pc \in {"display", "done"}

\* the model returned a score of exactly 0.3 and the canned message was stored
C9_Witness ==
    /\ response.kind = "returned"
    /\ response.score = Frac(3, 10)
    /\ session_state["llm_response"] = NoAnswerMsg
    /\ displayed = NoAnswerMsg

\* C10 as stated: a displayed LLM response is the adapter's result, in this run,
\* for the question now in the text input and the context of the dataset now
\* loaded.
C10_NoStaleAnswer ==
    displayed # NotShown =>
        /\ user_query # ""
        /\ response.kind # "not called"
        /\ context = BuildContext(kpi)
        /\ displayed = QAPolicy(response)

=============================================================================
